---- MODULE Spec2Model ----
(***************************************************************************)
(* Model of scripts/auto_translate.py: one run of the script per process,  *)
(* repeated runs sharing only the files on disk.                           *)
(*                                                                         *)
(* A catalog (a JSON object / Python dict, which keeps insertion order) is *)
(* a sequence of entries [k |-> key, v |-> value] with distinct keys.      *)
(* Keys and values are strings; len() of the code is Len on them.          *)
(***************************************************************************)
EXTENDS Integers, Sequences, FiniteSets, TLC

\* ---------------------------------------------------------------- bounds
MaxKeys == 3            \* longest catalog drawn for a file on disk
MaxChars == 4           \* largest chars_per_partition drawn

\* ------------------------------------------------------- program constants
SOURCE_LANG == "en"

\* ------------------------------------------------------------ input sets
SrcKeys == {"a", "bb", "ccc"}       \* keys the source file may hold, of length 1 to 3
StaleKey == "z"                     \* a key only a target file or a response holds
AllKeys == SrcKeys \cup {StaleKey}
SrcVals == {"x"}                    \* source texts
OldVal == "o"                       \* text of a translation found on disk
NewVals == {"t", "u"}               \* texts the translation service answers
Unset == "<unset>"                  \* an environment variable that is not set
Langs == {Unset, "", "en", "xx"}    \* values of TARGET_LANG in the environment
KeyOrder == <<"z", "ccc", "bb", "a">>  \* order of the keys in a file found on disk

VARIABLES
    source,               \* locales/en.json, parsed
    disk,                 \* locales/<TARGET_LANG>.json: [exists, data]
    env_lang,             \* os.environ TARGET_LANG at process start
    env_key,              \* TRUE iff OPENAI_API_KEY is in os.environ
    pc,                   \* position of the process
    exit_code,            \* -1 while running, 0 or 1 once the process ended
    all_keys,             \* main: all_keys
    changes,              \* main: changes
    target_data,          \* main: target_data
    json_to_translate,    \* main: json_to_translate
    chars_per_partition,  \* translate_text_partitioned: chars_per_partition
    partitions,           \* translate_text_partitioned: partitions
    part_idx,             \* translate_text_partitioned: index of `part` in partitions
    translated_data,      \* translate_text_partitioned: translated_data
    sent,                 \* the requests made for the batch last sent, in order
    succeeded,            \* number of batches merged into translated_data
    requests,             \* number of API requests of this run
    reads,                \* TRUE once this run opened a catalog file
    writes,               \* number of writes of the target file in this run
    disk0,                \* the target file as it was when this run started
    prev_wrote            \* TRUE iff the previous run wrote the target file

vars == <<source, disk, env_lang, env_key, pc, exit_code, all_keys, changes,
          target_data, json_to_translate, chars_per_partition, partitions,
          part_idx, translated_data, sent, succeeded, requests, reads, writes,
          disk0, prev_wrote>>

\* ------------------------------------------------------------ dict helpers
Entry(k, v) == [k |-> k, v |-> v]

\* dict.keys() as a set
KeySet(d) == {d[i].k : i \in DOMAIN d}

\* k in d
Has(d, k) == \E i \in DOMAIN d : d[i].k = k

\* d[k]
Get(d, k) == d[CHOOSE i \in DOMAIN d : d[i].k = k].v

\* d[k] = v: an existing key keeps its place, a new key goes last
DictSet(d, k, v) ==
    IF Has(d, k)
    THEN [i \in DOMAIN d |-> IF d[i].k = k THEN Entry(k, v) ELSE d[i]]
    ELSE Append(d, Entry(k, v))

\* d.update(other)
RECURSIVE DictUpdate(_, _)
DictUpdate(d, other) ==
    IF other = <<>> THEN d
    ELSE DictUpdate(DictSet(d, Head(other).k, Head(other).v), Tail(other))

\* a catalog has pairwise distinct keys
IsCatalog(d) == \A i, j \in DOMAIN d : d[i].k = d[j].k => i = j

\* the catalog that lists the keys K in the order of `order`, each with value v
RECURSIVE Listed(_, _, _)
Listed(order, K, v) ==
    IF order = <<>> THEN <<>>
    ELSE IF Head(order) \in K
         THEN <<Entry(Head(order), v)>> \o Listed(Tail(order), K, v)
         ELSE Listed(Tail(order), K, v)

\* ------------------------------------------------------ get_changed_keys
\* A line of `git diff` output: the characters it starts with, whether the
\* rest holds a ":", and the text before the first ":" once stripped of
\* blanks and quotes.
DiffLine(prefix, colon, key) == [prefix |-> prefix, colon |-> colon, key |-> key]
Header == DiffLine("+++", FALSE, "")
Diffs ==
    { <<>>,
      <<Header, DiffLine("-", TRUE, "a"), DiffLine("+", TRUE, "a")>>,
      <<Header, DiffLine(" ", TRUE, "a"), DiffLine("+", TRUE, "ccc"),
        DiffLine("+", FALSE, ""), DiffLine("-", TRUE, "bb")>> }
Events == {"push", "workflow_dispatch"}

\* line.startswith("+")
StartsWithPlus(line) == line.prefix \in {"+", "+++"}

\* the loop over diff_output.splitlines()
RECURSIVE ParseDiff(_)
ParseDiff(lines) ==
    IF lines = <<>> THEN <<>>
    ELSE LET line == Head(lines)
             rest == ParseDiff(Tail(lines))
         IN  IF StartsWithPlus(line) /\ line.prefix # "+++" /\ line.colon
             THEN <<line.key>> \o rest
             ELSE rest

get_changed_keys(event_name, diff_output) ==
    IF event_name = "workflow_dispatch" THEN <<>> ELSE ParseDiff(diff_output)

\* k in changes
InList(list, k) == \E i \in DOMAIN list : list[i] = k

\* --------------------------------------------------------- delta (main)
\* PruneTarget with the test negated: `if k not in all_keys`
PruneTargetNegated(target, all) == SelectSeq(target, LAMBDA e : ~Has(all, e.k))

\* {k: v for k, v in target_data.items() if k in all_keys}
PruneTarget(target, all) == SelectSeq(target, LAMBDA e : Has(all, e.k))

\* ToTranslate without the test for missing keys: `if k in changes`
ToTranslateChangedOnly(all, target, chg) ==
    SelectSeq(all, LAMBDA e : InList(chg, e.k))

\* {k: all_keys[k] for k in all_keys if k not in target_data or k in changes}
ToTranslate(all, target, chg) ==
    SelectSeq(all, LAMBDA e : ~Has(target, e.k) \/ InList(chg, e.k))

\* ------------------------------------------ translate_text_partitioned
\* PartitionLoop without the final `if current_partition: partitions.append`
RECURSIVE PartitionLoopNoTail(_, _, _, _, _)
PartitionLoopNoTail(items, current_partition, char_count, parts, threshold) ==
    IF items = <<>>
    THEN parts
    ELSE LET e == Head(items)
             cur == DictSet(current_partition, e.k, e.v)
             cnt == char_count + Len(e.k) + Len(e.v)
         IN  IF cnt >= threshold
             THEN PartitionLoopNoTail(Tail(items), <<>>, 0, Append(parts, cur), threshold)
             ELSE PartitionLoopNoTail(Tail(items), cur, cnt, parts, threshold)

\* the loop that fills `partitions`, from the entry Head(items) on
RECURSIVE PartitionLoop(_, _, _, _, _)
PartitionLoop(items, current_partition, char_count, parts, threshold) ==
    IF items = <<>>
    THEN IF current_partition # <<>> THEN Append(parts, current_partition) ELSE parts
    ELSE LET e == Head(items)
             cur == DictSet(current_partition, e.k, e.v)
             cnt == char_count + Len(e.k) + Len(e.v)
         IN  IF cnt >= threshold
             THEN PartitionLoop(Tail(items), <<>>, 0, Append(parts, cur), threshold)
             ELSE PartitionLoop(Tail(items), cur, cnt, parts, threshold)

MakePartitions(json_data, threshold) ==
    PartitionLoop(json_data, <<>>, 0, <<>>, threshold)

\* ------------------------------------------------- translate_partition
\* What json.loads makes of a response of the service:
\*   "invalid"   JSONDecodeError: translate_partition returns {}
\*   "empty_map" the text "{}": an empty dict (null, false, 0, "" and [] are
\*               falsy as it is, and are not drawn)
\*   "map"       a non-empty dict (or a value dict.update takes as one)
\*   "other"     any other value: true, a number, a text, a list
Parsed(kind, data) == [kind |-> kind, data |-> data]

\* the key sets of the answers drawn for a batch: its own keys, or these
\* with one key left out or one key added
AnswerKeys(part) ==
    {K \in SUBSET AllKeys :
        K # {} /\ Cardinality((K \ KeySet(part)) \cup (KeySet(part) \ K)) <= 1}

Responses(part) ==
    {Parsed(kind, <<>>) : kind \in {"invalid", "empty_map", "other"}}
        \cup {Parsed("map", Listed(KeyOrder, K, v)) : K \in AnswerKeys(part), v \in NewVals}

\* the value translate_partition returns
translate_partition(resp) ==
    IF resp.kind = "invalid" THEN Parsed("empty_map", <<>>) ELSE resp

\* Truthy with the test dropped: every answer counts as a success
TruthyAlways(val) == TRUE

\* bool(translated_part)
Truthy(val) == val.kind \in {"map", "other"}

\* translated_data.update(translated_part) raises unless it is given a mapping
UpdateRaises(val) == val.kind = "other"

\* ------------------------------------------------------- merge (main)
\* OrderedData with the two branches swapped: the value on disk wins
RECURSIVE OrderedDataTargetWins(_, _, _)
OrderedDataTargetWins(all, translated, target) ==
    IF all = <<>> THEN <<>>
    ELSE LET key == Head(all).k
             rest == OrderedDataTargetWins(Tail(all), translated, target)
         IN  IF Has(target, key)
             THEN <<Entry(key, Get(target, key))>> \o rest
             ELSE IF Has(translated, key)
                  THEN <<Entry(key, Get(translated, key))>> \o rest
                  ELSE rest

\* OrderedData as target_data.update(translated_data): the order of insertion
OrderedDataAccumulate(all, translated, target) == DictUpdate(target, translated)

\* OrderedData that lists the keys in the order of target_data
RECURSIVE OrderedDataTargetOrder(_, _, _)
OrderedDataTargetOrder(all, translated, target) ==
    IF target = <<>> THEN <<>>
    ELSE LET key == Head(target).k
             rest == OrderedDataTargetOrder(all, translated, Tail(target))
         IN  IF Has(translated, key)
             THEN <<Entry(key, Get(translated, key))>> \o rest
             ELSE <<Head(target)>> \o rest

\* the loop that fills ordered_data
RECURSIVE OrderedData(_, _, _)
OrderedData(all, translated, target) ==
    IF all = <<>> THEN <<>>
    ELSE LET key == Head(all).k
             rest == OrderedData(Tail(all), translated, target)
         IN  IF Has(translated, key)
             THEN <<Entry(key, Get(translated, key))>> \o rest
             ELSE IF Has(target, key)
                  THEN <<Entry(key, Get(target, key))>> \o rest
                  ELSE rest

\* ------------------------------------------------------------------ files
\* the catalogs drawn for locales/en.json: at most MaxKeys entries, distinct
\* keys, in any order
Sources ==
    {s \in UNION {[1..n -> {Entry(k, v) : k \in SrcKeys, v \in SrcVals}] : n \in 0..MaxKeys} :
        IsCatalog(s)}

\* the files drawn for locales/<TARGET_LANG>.json: none, or a catalog of at
\* most MaxKeys earlier translations
File(exists, data) == [exists |-> exists, data |-> data]
Targets ==
    {File(FALSE, <<>>)}
        \cup {File(TRUE, Listed(KeyOrder, K, OldVal)) :
                K \in {K \in SUBSET AllKeys : Cardinality(K) <= MaxKeys}}

\* the values drawn for chars_per_partition (main passes 5000; the texts of
\* the model are as much shorter)
Thresholds == (MaxChars - 1)..MaxChars

\* ---------------------------------------------------------------- actions
Init ==
    /\ source \in Sources
    /\ disk \in Targets
    /\ env_lang \in Langs
    /\ env_key \in BOOLEAN
    /\ disk0 = disk
    /\ prev_wrote = FALSE
    /\ pc = "import"
    /\ exit_code = -1
    /\ all_keys = <<>>
    /\ changes = <<>>
    /\ target_data = <<>>
    /\ json_to_translate = <<>>
    /\ chars_per_partition = 0
    /\ partitions = <<>>
    /\ part_idx = 0
    /\ translated_data = <<>>
    /\ sent = <<>>
    /\ succeeded = 0
    /\ requests = 0
    /\ reads = FALSE
    /\ writes = 0

\* the process ends: `code` is its exit status
Exit(code) ==
    /\ pc' = "exit"
    /\ exit_code' = code

\* TARGET_LANG = os.environ["TARGET_LANG"]: KeyError when it is not set
Import ==
    /\ pc = "import"
    /\ IF env_lang = Unset THEN Exit(1) ELSE pc' = "main" /\ exit_code' = exit_code
    /\ UNCHANGED <<source, disk, env_lang, env_key, all_keys, changes, target_data,
                   json_to_translate, chars_per_partition, partitions, part_idx,
                   translated_data, sent, succeeded, requests, reads, writes,
                   disk0, prev_wrote>>

\* ConfigOutcome without the check of OPENAI_API_KEY
ConfigOutcomeNoKeyCheck(target_lang, has_key) ==
    IF target_lang = "" THEN "return"
    ELSE IF target_lang = SOURCE_LANG THEN "return"
    ELSE "go on"

\* the three checks main starts with: it returns, raises or goes on
ConfigOutcome(target_lang, has_key) ==
    IF target_lang = "" THEN "return"
    ELSE IF target_lang = SOURCE_LANG THEN "return"
    ELSE IF ~has_key THEN "raise"
    ELSE "go on"

\* main, up to the creation of the client
MainChecks ==
    /\ pc = "main"
    /\ LET outcome == ConfigOutcome(env_lang, env_key)
       IN  IF outcome = "return" THEN Exit(0)
           ELSE IF outcome = "raise" THEN Exit(1)
           ELSE pc' = "load" /\ exit_code' = exit_code
    /\ UNCHANGED <<source, disk, env_lang, env_key, all_keys, changes, target_data,
                   json_to_translate, chars_per_partition, partitions, part_idx,
                   translated_data, sent, succeeded, requests, reads, writes,
                   disk0, prev_wrote>>

\* main, from get_source_dict() to the call of translate_text_partitioned,
\* and that function up to its loop over the partitions
Load ==
    /\ pc = "load"
    /\ \E event_name \in Events, diff_output \in Diffs, threshold \in Thresholds :
        LET chg == get_changed_keys(event_name, diff_output)
            pruned == IF disk.exists THEN PruneTarget(disk.data, source) ELSE <<>>
            todo == IF disk.exists THEN ToTranslate(source, pruned, chg) ELSE source
        IN  /\ all_keys' = source
            /\ changes' = chg
            /\ target_data' = pruned
            /\ json_to_translate' = todo
            /\ chars_per_partition' = threshold
            /\ IF todo = <<>>
               THEN /\ partitions' = <<>>
                    /\ part_idx' = 0
                    /\ pc' = "write"
               ELSE /\ partitions' = MakePartitions(todo, threshold)
                    /\ part_idx' = 1
                    /\ pc' = "translate"
    /\ reads' = TRUE
    /\ UNCHANGED <<source, disk, env_lang, env_key, exit_code, translated_data, sent,
                   succeeded, requests, writes, disk0, prev_wrote>>

\* what follows a call of translate_partition whose value was truthy:
\* translated_data.update(translated_part), then the next partition
Merged(val) ==
    IF UpdateRaises(val)
    THEN /\ Exit(1)
         /\ UNCHANGED <<translated_data, succeeded, part_idx>>
    ELSE /\ translated_data' = DictUpdate(translated_data, val.data)
         /\ succeeded' = succeeded + 1
         /\ exit_code' = exit_code
         /\ IF part_idx = Len(partitions)
            THEN pc' = "write" /\ part_idx' = part_idx
            ELSE pc' = "translate" /\ part_idx' = part_idx + 1

\* one request to the API for the batch `part`, answered by `resp`
Request(part, resp) == [idx |-> part_idx, part |-> part, kind |-> resp.kind]

\* the loop body of translate_text_partitioned, up to the first answer
Translate ==
    /\ pc = "translate"
    /\ \E resp \in Responses(partitions[part_idx]) :
        LET part == partitions[part_idx]
            translated_part == translate_partition(resp)
        IN  /\ sent' = <<Request(part, resp)>>
            /\ IF ~Truthy(translated_part)
               THEN /\ pc' = "retry"
                    /\ UNCHANGED <<translated_data, succeeded, part_idx, exit_code>>
               ELSE Merged(translated_part)
    /\ requests' = requests + 1
    /\ UNCHANGED <<source, disk, env_lang, env_key, all_keys, changes, target_data,
                   json_to_translate, chars_per_partition, partitions, reads, writes,
                   disk0, prev_wrote>>

\* RaiseAfterRetry that gives the batch up and carries on to the write
SkipAfterRetry ==
    /\ pc' = "write"
    /\ exit_code' = exit_code
    /\ UNCHANGED <<translated_data, succeeded, part_idx>>

\* raise ValueError("Translation failed after 2 tries.")
RaiseAfterRetry ==
    /\ Exit(1)
    /\ UNCHANGED <<translated_data, succeeded, part_idx>>

\* the loop body of translate_text_partitioned after "Retrying..."
Retry ==
    /\ pc = "retry"
    /\ \E resp \in Responses(partitions[part_idx]) :
        LET part == partitions[part_idx]
            translated_part == translate_partition(resp)
        IN  /\ sent' = Append(sent, Request(part, resp))
            /\ IF ~Truthy(translated_part)
               THEN RaiseAfterRetry
               ELSE Merged(translated_part)
    /\ requests' = requests + 1
    /\ UNCHANGED <<source, disk, env_lang, env_key, all_keys, changes, target_data,
                   json_to_translate, chars_per_partition, partitions, reads, writes,
                   disk0, prev_wrote>>

\* main, from "Update target_data with translated values" to its end
Write ==
    /\ pc = "write"
    /\ disk' = File(TRUE, OrderedData(all_keys, translated_data, target_data))
    /\ writes' = writes + 1
    /\ Exit(0)
    /\ UNCHANGED <<source, env_lang, env_key, all_keys, changes, target_data,
                   json_to_translate, chars_per_partition, partitions, part_idx,
                   translated_data, sent, succeeded, requests, reads, disk0, prev_wrote>>

\* the script is started again, the files being as the last run left them
NextRun ==
    /\ pc = "exit"
    /\ env_lang' \in Langs
    /\ env_key' \in BOOLEAN
    /\ disk0' = disk
    /\ prev_wrote' = (writes > 0)
    /\ pc' = "import"
    /\ exit_code' = -1
    /\ all_keys' = <<>>
    /\ changes' = <<>>
    /\ target_data' = <<>>
    /\ json_to_translate' = <<>>
    /\ chars_per_partition' = 0
    /\ partitions' = <<>>
    /\ part_idx' = 0
    /\ translated_data' = <<>>
    /\ sent' = <<>>
    /\ succeeded' = 0
    /\ requests' = 0
    /\ reads' = FALSE
    /\ writes' = 0
    /\ UNCHANGED <<source, disk>>

Next == Import \/ MainChecks \/ Load \/ Translate \/ Retry \/ Write \/ NextRun

Spec == Init /\ [][Next]_vars

\* ------------------------------------------------------------- properties
\* the keys of a catalog, in its order
KeysOf(d) == [i \in DOMAIN d |-> d[i].k]

\* cumulative character length of the keys and values of a batch
RECURSIVE CharCount(_)
CharCount(d) ==
    IF d = <<>> THEN 0 ELSE Len(Head(d).k) + Len(Head(d).v) + CharCount(Tail(d))

\* the batches, one after the other
RECURSIVE Concat(_)
Concat(parts) == IF parts = <<>> THEN <<>> ELSE Head(parts) \o Concat(Tail(parts))

\* the place of key k in catalog d
Place(d, k) == CHOOSE i \in DOMAIN d : d[i].k = k

\* the run ended without having opened a file, sent a request or written
NoWork == ~reads /\ requests = 0 /\ writes = 0 /\ disk = disk0

\* the run reached the end of main
Completed == pc = "exit" /\ writes > 0

\* a response that json.loads rejects, or that it turns into an empty value
Failing(kind) == kind \in {"invalid", "empty_map"}

\* a response that is not the text of a mapping
NotAMapping(kind) == kind \in {"invalid", "other"}

\* C1: the target file is written at most once per run, and only when every
\* batch has been answered by a mapping; a run in which a batch fails on its
\* first attempt and on its retry ends with an error and leaves the file as
\* it was when the run started, whatever batches had succeeded before.
C1_NoPartialWrite ==
    /\ writes <= 1
    /\ writes = 0 => disk = disk0
    /\ writes = 1 =>
         /\ succeeded = Len(partitions)
         /\ partitions # <<>> =>
              /\ sent # <<>>
              /\ sent[Len(sent)].idx = Len(partitions)
              /\ sent[Len(sent)].kind = "map"
    /\ (Len(sent) = 2 /\ Failing(sent[2].kind)) =>
         /\ pc = "exit"
         /\ exit_code = 1
         /\ writes = 0
         /\ disk = disk0

C1_Witness ==
    /\ pc = "exit"
    /\ exit_code = 1
    /\ Len(sent) = 2
    /\ sent[1].kind = "invalid"
    /\ sent[2].kind = "invalid"
    /\ succeeded >= 1
    /\ disk0.exists
    /\ disk = disk0

\* the requests made for one batch, in every state
C2_State ==
    /\ Len(sent) <= 2
    /\ \A i \in DOMAIN sent :
         /\ sent[i].idx = sent[1].idx
         /\ sent[i].part = partitions[sent[i].idx]
         /\ sent[i].part = sent[1].part
    /\ Len(sent) = 2 => Failing(sent[1].kind)
    /\ (Len(sent) = 1 /\ Failing(sent[1].kind)) => pc = "retry"
    /\ pc = "retry" => (Len(sent) = 1 /\ part_idx = sent[1].idx)
    /\ (Len(sent) = 2 /\ Failing(sent[2].kind)) => (pc = "exit" /\ exit_code = 1)
    /\ (sent # <<>> /\ sent[Len(sent)].kind = "other") => (pc = "exit" /\ exit_code = 1)

\* the requests made for one batch, in every step
C2_Step ==
    /\ pc = "retry" => (requests' = requests + 1 /\ Len(sent') = 2)
    /\ (sent = <<>> /\ sent' # <<>>) => sent'[1].idx = 1
    /\ (sent # <<>> /\ sent' # <<>> /\ sent'[1].idx # sent[1].idx) =>
         /\ sent'[1].idx = sent[1].idx + 1
         /\ sent[Len(sent)].kind = "map"

C3_EmptyPendingRewrites ==
    (pc = "exit" /\ reads /\ json_to_translate = <<>>) =>
        /\ exit_code = 0
        /\ requests = 0
        /\ writes = 1
        /\ disk.exists
        /\ KeysOf(disk.data) = KeysOf(source)
        /\ \A k \in KeySet(source) : Get(disk.data, k) = Get(disk0.data, k)

C3_Witness ==
    /\ pc = "exit"
    /\ reads
    /\ json_to_translate = <<>>
    /\ Len(source) >= 2
    /\ disk0.exists
    /\ StaleKey \in KeySet(disk0.data)
    /\ disk # disk0

\* C3 (as claimed): when the pending set of a run is empty the run ends with
\* status 0, sends no request and does not write the target file.
C3_Original ==
    (pc = "exit" /\ reads /\ json_to_translate = <<>>) =>
        /\ exit_code = 0
        /\ requests = 0
        /\ writes = 0
        /\ disk = disk0

\* C4 (as amended): when the previous run completed and the catalog it wrote
\* holds every source key, and the change list of this run names no source
\* key, this run computes an empty pending set and sends no request.
C4_Idempotent ==
    (/\ prev_wrote
     /\ reads
     /\ KeySet(source) \subseteq KeySet(disk0.data)
     /\ \A k \in KeySet(source) : ~InList(changes, k)) =>
        /\ json_to_translate = <<>>
        /\ requests = 0

C4_Witness ==
    /\ prev_wrote
    /\ pc = "exit"
    /\ reads
    /\ Len(source) = MaxKeys
    /\ KeySet(source) \subseteq KeySet(disk0.data)
    /\ changes = <<>>
    /\ json_to_translate = <<>>
    /\ requests = 0

\* C4 (as claimed): when the previous run completed and the source has not
\* changed, this run computes an empty pending set and sends no request.
C4_Original ==
    (prev_wrote /\ reads) => (json_to_translate = <<>> /\ requests = 0)

\* C5 (as claimed): no batch exceeds chars_per_partition in the cumulative
\* length of its keys and values, unless it consists of a single entry.
C5_Original ==
    \A i \in DOMAIN partitions :
        CharCount(partitions[i]) <= chars_per_partition \/ Len(partitions[i]) = 1

\* C6: after a run that completes, every key of the written catalog is a
\* source key, so that no stale key of the earlier target file is left,
\* whatever keys the responses held.
C6_Pruned ==
    Completed =>
        /\ KeySet(disk.data) \subseteq KeySet(source)
        /\ \A k \in KeySet(disk0.data) \ KeySet(source) : ~Has(disk.data, k)

C6_Witness ==
    /\ Completed
    /\ StaleKey \in KeySet(disk0.data)
    /\ Has(translated_data, StaleKey)
    /\ disk.data # <<>>

\* C7 (as amended): with no target file, or an empty one, a run that
\* completes requests translation for every source key, batch by batch, and
\* writes the source keys for which a response held a translation: all of
\* them when the responses held every key of their batch.
C7_FromScratch ==
    (Completed /\ disk0.data = <<>>) =>
        /\ json_to_translate = source
        /\ UNION {KeySet(partitions[i]) : i \in DOMAIN partitions} = KeySet(source)
        /\ KeySet(disk.data) = KeySet(source) \cap KeySet(translated_data)

C7_Witness ==
    /\ Completed
    /\ ~disk0.exists
    /\ Len(source) = MaxKeys
    /\ Len(partitions) >= 2
    /\ KeySet(disk.data) = KeySet(source)

\* C7 (as claimed): with no target file, or an empty one, a run that
\* completes writes a catalog whose key set is that of the source.
C7_Original ==
    (Completed /\ disk0.data = <<>>) =>
        /\ json_to_translate = source
        /\ KeySet(disk.data) = KeySet(source)

\* C8: the written catalog lists its keys in source order; a key has the
\* value translated in this run when there is one, and else the value the
\* target file had; a source key with neither is left out.
C8_Merge ==
    Completed =>
        /\ KeySet(disk.data) =
             KeySet(source) \cap (KeySet(translated_data) \cup KeySet(disk0.data))
        /\ \A i, j \in DOMAIN disk.data :
             i < j => Place(source, disk.data[i].k) < Place(source, disk.data[j].k)
        /\ \A i \in DOMAIN disk.data :
             disk.data[i].v =
                IF Has(translated_data, disk.data[i].k)
                THEN Get(translated_data, disk.data[i].k)
                ELSE Get(disk0.data, disk.data[i].k)

C8_Witness ==
    /\ Completed
    /\ Len(disk.data) = MaxKeys
    /\ KeysOf(disk.data) # KeysOf(target_data)
    /\ \E k \in KeySet(disk.data) :
         /\ Has(translated_data, k)
         /\ Has(disk0.data, k)
         /\ Get(translated_data, k) # Get(disk0.data, k)
    /\ \E k \in KeySet(disk.data) : ~Has(translated_data, k)

\* C9 (as amended): a run with TARGET_LANG unset ends with an error; a run
\* with TARGET_LANG empty ends with status 0; a run without OPENAI_API_KEY
\* ends with an error unless TARGET_LANG is empty or the source language,
\* when it ends with status 0. None of these runs opens a file, sends a
\* request or writes.
C9_Config ==
    (pc = "exit" /\ (env_lang \in {Unset, ""} \/ ~env_key)) =>
        /\ NoWork
        /\ exit_code = IF env_lang = Unset THEN 1
                       ELSE IF env_lang \in {"", SOURCE_LANG} THEN 0
                       ELSE 1

C9_Witness ==
    /\ pc = "exit"
    /\ ~env_key
    /\ env_lang = "xx"
    /\ exit_code = 1
    /\ disk0.exists
    /\ source # <<>>

\* C9 (as claimed): a run with TARGET_LANG unset or empty, or without
\* OPENAI_API_KEY, ends with an error before any work is done.
C9_Original ==
    (pc = "exit" /\ (env_lang \in {Unset, ""} \/ ~env_key)) =>
        (exit_code = 1 /\ NoWork)

\* C10: the batches, one after the other in the order they are sent, are the
\* pending mapping: every pending entry is in exactly one batch, with its
\* value and in its place, and no batch is empty.
C10_Batches ==
    reads =>
        /\ Concat(partitions) = json_to_translate
        /\ \A i \in DOMAIN partitions : partitions[i] # <<>>

C10_Witness ==
    /\ reads
    /\ Len(json_to_translate) = MaxKeys
    /\ Len(partitions) = 2
    /\ \E i \in DOMAIN partitions : Len(partitions[i]) = 2

====
